---- MODULE Spec2Model ----
(***************************************************************************)
(* Model of the UserAuth blueprint (user_auth/completed/lib.rs): the       *)
(* membership workflow request_user -> approve_user -> claim_user, plus    *)
(* the create_auction access check.                                        *)
(*                                                                         *)
(* A Scrypto method call is one transaction: a panic (unwrap on None,      *)
(* assert_eq!, expect, a failed access rule) aborts it and rolls back      *)
(* every write, and the buckets passed in go back to the caller.  Each     *)
(* action below is therefore one whole method call, and a failing call     *)
(* changes nothing but the record of the call's outcome.                   *)
(*                                                                         *)
(* NonFungibleId::random() draws a 128-bit identifier; it is modelled as   *)
(* an identifier never drawn before for that resource (a counter), one     *)
(* counter per resource, so a TemporaryBadge and a UserBadge may carry the *)
(* same identifier.                                                        *)
(***************************************************************************)
EXTENDS Integers, FiniteSets, Sequences, TLC

\* Bounds of the model: how many TemporaryBadge / UserBadge NFTs are minted.
MaxTempIds == 3
MaxUserIds == 2

\* The usernames callers pass (request_user performs no validation, so the
\* empty string is one of them).
Usernames == {"", "alice"}

TempIds == 1..MaxTempIds
UserIds == 1..MaxUserIds

\* Resource addresses fixed by instantiate_user_auth, and one resource that
\* does not belong to the component.
admin_badge_address == "AB"
component_badge_address == "CB"
temporary_badge_address == "TB"
user_badge_address == "UB"
foreign_address == "XX"

\* Placeholders of the call record.
NoName == "-"
NoId == 0
NoBucket == [addr |-> "none", ids |-> {}]

\* HashMap<K, V> as a function on the set of its keys.
EmptyMap == [k \in {} |-> NoId]
Insert(m, k, v) == [x \in (DOMAIN m) \cup {k} |-> IF x = k THEN v ELSE m[x]]
RemoveEntry(m, k) == [x \in (DOMAIN m) \ {k} |-> m[x]]
Values(m) == {m[k] : k \in DOMAIN m}

VARIABLES
    pending_users,         \* HashMap<String, NonFungibleId>: username -> TemporaryBadge id
    approved_users,        \* HashMap<NonFungibleId, NonFungibleId>: TemporaryBadge id -> UserBadge id
    approved_users_vault,  \* the UserBadge ids held in the component's vault
    temporary_badges,      \* TemporaryBadge NFTs in existence: id -> username (all held by callers)
    user_badges,           \* UserBadge NFTs in existence: id -> username (in the vault or held by claimants)
    next_temp_id,          \* the next identifier NonFungibleId::random() yields for a TemporaryBadge
    next_user_id,          \* the next identifier NonFungibleId::random() yields for a UserBadge
    last,                  \* the last call: method, arguments, outcome, returned NFT id
    prev_request,          \* history: the call before the last one, when it was a request_user: its username and returned id
    claim_count,           \* history: TemporaryBadge id -> number of claim_user calls that succeeded with it
    requested_as,          \* history: TemporaryBadge id -> the username of the request_user call that minted it
    re_requested,          \* history: UserBadge ids whose username was requested again while they sat in the vault
    scenario,              \* history: progress of request(u), approve(u), claim(t) on a fresh component
    overwritten,           \* history: TemporaryBadge ids whose pending_users entry a later request_user replaced
    approved_log,          \* history: TemporaryBadge id -> the approve_user call that recorded it in approved_users
    delivered              \* history: UserBadge ids that a successful claim_user returned to its caller

vars == <<pending_users, approved_users, approved_users_vault, temporary_badges,
          user_badges, next_temp_id, next_user_id, last, prev_request, claim_count,
          requested_as, re_requested, scenario, overwritten, approved_log,
          delivered>>

\* UserBadge NFTs that left the vault: held by the callers who claimed them.
held_user_badges == (DOMAIN user_badges) \ approved_users_vault

\* TemporaryBadge ids that were minted and burnt.
burnt_temporary_badges == (1..(next_temp_id - 1)) \ DOMAIN temporary_badges

Call(op, username, auth, bucket, result, ret) ==
    [op |-> op, username |-> username, auth |-> auth, bucket |-> bucket,
     result |-> result, ret |-> ret]

NoCall == Call("none", NoName, FALSE, NoBucket, "none", NoId)

NoRequest == [username |-> NoName, id |-> NoId]

\* The scenario monitor: stage 0 is the fresh component; stage 1 after a first
\* call request_user(u) that returned t; stage 2 after approve_user(u) with the
\* admin badge follows; stage 3 after claim_user of t follows; anything else
\* leaves the scenario.  It follows the calls made, not their outcomes.
OffScenario == [stage |-> 9, username |-> NoName, id |-> NoId]

ScenarioStep(s, c) ==
    IF s.stage = 0 /\ c.op = "request_user"
        THEN [stage |-> 1, username |-> c.username, id |-> c.ret]
    ELSE IF s.stage = 1 /\ c.op = "approve_user" /\ c.auth /\ c.username = s.username
        THEN [s EXCEPT !.stage = 2]
    ELSE IF s.stage = 2 /\ c.op = "claim_user"
            /\ c.bucket = [addr |-> temporary_badge_address, ids |-> {s.id}]
        THEN [s EXCEPT !.stage = 3]
    ELSE OffScenario

\* What every call does to the record of calls.
Record(c) ==
    /\ last' = c
    /\ prev_request' = IF last.op = "request_user"
                       THEN [username |-> last.username, id |-> last.ret]
                       ELSE NoRequest
    /\ scenario' = ScenarioStep(scenario, c)

\* A call that panics: the transaction is rolled back.
Abort(c) ==
    /\ Record(c)
    /\ UNCHANGED <<pending_users, approved_users, approved_users_vault,
                   temporary_badges, user_badges, next_temp_id, next_user_id,
                   claim_count, requested_as, re_requested, overwritten,
                   approved_log, delivered>>

\* instantiate_user_auth: empty registries, an empty UserBadge vault, no
\* TemporaryBadge or UserBadge minted.
Init ==
    /\ pending_users = EmptyMap
    /\ approved_users = EmptyMap
    /\ approved_users_vault = {}
    /\ temporary_badges = EmptyMap
    /\ user_badges = EmptyMap
    /\ next_temp_id = 1
    /\ next_user_id = 1
    /\ last = NoCall
    /\ prev_request = NoRequest
    /\ claim_count = [t \in TempIds |-> 0]
    /\ requested_as = EmptyMap
    /\ re_requested = {}
    /\ scenario = [stage |-> 0, username |-> NoName, id |-> NoId]
    /\ overwritten = {}
    /\ approved_log = EmptyMap
    /\ delivered = {}

\* Mutant: add_access_check left out, every method open to every caller.
AuthorizedAllowAll(method, auth) == TRUE

\* The access rule of instantiate_user_auth, lines 92-95 and 107: approve_user
\* requires a proof of the admin badge, every other method is allow_all.
Authorized(method, auth) == method = "approve_user" => auth

\* Mutant: entry(username).or_insert(id), an earlier entry is kept.
PendingKeepFirst(username, id) ==
    IF username \in DOMAIN pending_users THEN pending_users
    ELSE Insert(pending_users, username, id)

\* request_user, line 130: pending_users.insert(username, temporary_badge.non_fungible_id()).
PendingAfterRequest(username, id) == Insert(pending_users, username, id)

\* request_user, lines 117-127: the TemporaryBadge minted, with its data.
TemporaryBadgeMinted(username, id) == Insert(temporary_badges, id, username)

request_user(username, auth) ==
    /\ Authorized("request_user", auth)
    /\ next_temp_id <= MaxTempIds
    /\ LET id == next_temp_id
           c == Call("request_user", username, auth, NoBucket, "ok", id)
       IN /\ temporary_badges' = TemporaryBadgeMinted(username, id)
          /\ next_temp_id' = next_temp_id + 1
          /\ pending_users' = PendingAfterRequest(username, id)
          /\ requested_as' = Insert(requested_as, id, username)
          /\ re_requested' = re_requested \cup
                {p \in approved_users_vault : user_badges[p] = username}
          /\ overwritten' = overwritten \cup
                {pending_users[u] : u \in {username} \cap DOMAIN pending_users}
          /\ Record(c)
          /\ UNCHANGED <<approved_users, approved_users_vault, user_badges,
                         next_user_id, claim_count, approved_log, delivered>>

\* The id returned by the most recent request_user(username) call so far
\* (TemporaryBadge ids are numbered in the order they are minted).
LatestRequest(username) ==
    LET ids == {t \in DOMAIN requested_as : requested_as[t] = username}
    IN IF ids = {} THEN NoId ELSE CHOOSE t \in ids : \A x \in ids : x <= t

\* Mutant: unwrap_or instead of unwrap, a missing entry yields an id.
PendingLookupOrFirst(username) ==
    IF username \in DOMAIN pending_users THEN pending_users[username] ELSE 1

\* approve_user, line 141: pending_users.get(&username).
PendingLookup(username) ==
    IF username \in DOMAIN pending_users THEN pending_users[username] ELSE NoId

\* Mutant: the UserBadge minted with an empty username.
UserBadgeMintedBlank(username, id) == Insert(user_badges, id, "")

\* approve_user, lines 143-153: the UserBadge minted, with its data.
UserBadgeMinted(username, id) == Insert(user_badges, id, username)

\* approve_user, line 155: approved_users.insert(temporary_badge_id, user_badge id).
ApprovedAfterApprove(temporary_badge_id, user_badge_id) ==
    Insert(approved_users, temporary_badge_id, user_badge_id)

\* Mutant: the UserBadge minted is not put into the vault.
VaultNoPut(user_badge_id) == approved_users_vault

\* approve_user, line 157: approved_users_vault.put(user_badge).
VaultAfterPut(user_badge_id) == approved_users_vault \cup {user_badge_id}

\* Mutant: remove_entry left out.
PendingKept(username) == pending_users

\* approve_user, line 159: pending_users.remove_entry(&username).
PendingAfterApprove(username) == RemoveEntry(pending_users, username)

approve_user(username, auth) ==
    LET fail(e) == Abort(Call("approve_user", username, auth, NoBucket, e, NoId))
    IN IF ~Authorized("approve_user", auth) THEN fail("UnauthorizedError")
       ELSE IF PendingLookup(username) = NoId THEN fail("NotFoundError")
       ELSE /\ next_user_id <= MaxUserIds
            /\ LET temporary_badge_id == PendingLookup(username)
                   id == next_user_id
               IN /\ user_badges' = UserBadgeMinted(username, id)
                  /\ next_user_id' = next_user_id + 1
                  /\ approved_users' = ApprovedAfterApprove(temporary_badge_id, id)
                  /\ approved_users_vault' = VaultAfterPut(id)
                  /\ pending_users' = PendingAfterApprove(username)
                  /\ approved_log' = Insert(approved_log, temporary_badge_id,
                        [username |-> username, auth |-> auth,
                         latest |-> LatestRequest(username)])
                  /\ Record(Call("approve_user", username, auth, NoBucket, "ok", id))
                  /\ UNCHANGED <<temporary_badges, next_temp_id, claim_count,
                                 requested_as, re_requested, overwritten, delivered>>

\* The buckets a caller can pass to claim_user: any TemporaryBadge NFTs in
\* existence (none, one or several), a UserBadge it holds, the admin badge
\* (fungible), or an NFT of a foreign resource with any identifier.
Buckets ==
    {[addr |-> temporary_badge_address, ids |-> s] : s \in SUBSET DOMAIN temporary_badges}
    \cup {[addr |-> user_badge_address, ids |-> {p}] : p \in held_user_badges}
    \cup {[addr |-> admin_badge_address, ids |-> {}]}
    \cup {[addr |-> foreign_address, ids |-> {i}] : i \in TempIds}

\* Mutant: the assert_eq! left out.
AnyBucketBelongs(bucket) == TRUE

\* claim_user, lines 169-172: the assert_eq! on the bucket's resource address.
BelongsToProtocol(bucket) == bucket.addr = temporary_badge_address

\* Mutant: a missing entry yields some UserBadge of the vault.
ApprovedLookupOrAny(id) ==
    IF id \in DOMAIN approved_users THEN approved_users[id]
    ELSE IF approved_users_vault # {} THEN CHOOSE p \in approved_users_vault : TRUE
    ELSE NoId

\* claim_user, line 175: approved_users.get(&temporary_badge.non_fungible_id()).
ApprovedLookup(id) ==
    IF id \in DOMAIN approved_users THEN approved_users[id] ELSE NoId

\* Mutant: remove_entry left out.
ApprovedKept(id) == approved_users

\* Mutant: approved_users.clear() instead of remove_entry.
ApprovedCleared(id) == EmptyMap

\* claim_user, line 180: approved_users.remove_entry(&temporary_badge.non_fungible_id()).
ApprovedAfterClaim(id) == RemoveEntry(approved_users, id)

\* Mutant: the burn left out.
TemporaryBadgeNotBurnt(id) == temporary_badges

\* claim_user, line 183: temporary_badge.burn().
TemporaryBadgeBurnt(id) == RemoveEntry(temporary_badges, id)

\* Mutant: the UserBadge is not taken out of the vault.
VaultKept(user_badge_id) == approved_users_vault

\* claim_user, line 178: approved_users_vault.take_non_fungible(user_badge_id).
VaultAfterTake(user_badge_id) == approved_users_vault \ {user_badge_id}

claim_user(bucket, auth) ==
    LET fail(e) == Abort(Call("claim_user", NoName, auth, bucket, e, NoId))
    IN IF ~Authorized("claim_user", auth) THEN fail("UnauthorizedError")
       ELSE IF ~BelongsToProtocol(bucket) THEN fail("WrongCredentialTypeError")
       \* Bucket::non_fungible_id() panics unless the bucket holds exactly one NFT
       ELSE IF Cardinality(bucket.ids) # 1 THEN fail("NotSingleNonFungible")
       ELSE LET id == CHOOSE i \in bucket.ids : TRUE
                user_badge_id == ApprovedLookup(id)
            IN IF user_badge_id = NoId THEN fail("NotApprovedError")
               \* Vault::take_non_fungible panics when the vault lacks the NFT
               ELSE IF user_badge_id \notin approved_users_vault
                    THEN fail("NonFungibleNotInVault")
               ELSE /\ approved_users_vault' = VaultAfterTake(user_badge_id)
                    /\ approved_users' = ApprovedAfterClaim(id)
                    /\ temporary_badges' = TemporaryBadgeBurnt(id)
                    /\ claim_count' = [claim_count EXCEPT ![id] = @ + 1]
                    /\ Record(Call("claim_user", NoName, auth, bucket, "ok", user_badge_id))
                    /\ delivered' = delivered \cup {user_badge_id}
                    /\ UNCHANGED <<pending_users, user_badges, next_temp_id,
                                   next_user_id, requested_as, re_requested,
                                   overwritten, approved_log>>

\* The proofs a caller can pass to create_auction: of a UserBadge it holds, of
\* a TemporaryBadge, of the admin badge, or of a foreign resource.
Proofs ==
    {[addr |-> user_badge_address, ids |-> {p}] : p \in held_user_badges}
    \cup {[addr |-> temporary_badge_address, ids |-> {t}] : t \in DOMAIN temporary_badges}
    \cup {[addr |-> admin_badge_address, ids |-> {}]}
    \cup {[addr |-> foreign_address, ids |-> {1}]}

\* Mutant: the result of validate_proof is dropped, every proof passes.
ValidateAnyProof(proof) == TRUE

\* create_auction, line 198: ValidateResourceAddress(self.user_badge_address).
ValidateProof(proof) == proof.addr = user_badge_address

create_auction(proof, auth) ==
    LET done(r) == Abort(Call("create_auction", NoName, auth, proof, r, NoId))
    IN IF ~Authorized("create_auction", auth) THEN done("UnauthorizedError")
       ELSE IF ValidateProof(proof) THEN done("ok")
       ELSE done("InvalidAttestationError")

Next ==
    \/ \E username \in Usernames, auth \in BOOLEAN : request_user(username, auth)
    \/ \E username \in Usernames, auth \in BOOLEAN : approve_user(username, auth)
    \/ \E bucket \in Buckets, auth \in BOOLEAN : claim_user(bucket, auth)
    \/ \E proof \in Proofs, auth \in BOOLEAN : create_auction(proof, auth)

Spec == Init /\ [][Next]_vars

\* The component's registries and pool, the NFTs in existence and the
\* identifiers drawn so far: what a rejected call must leave alone.
Unchanged ==
    UNCHANGED <<pending_users, approved_users, approved_users_vault,
                temporary_badges, user_badges, next_temp_id, next_user_id>>

\* The TemporaryBadge id in the bucket of the last call, when it holds one NFT.
BucketId(c) == CHOOSE i \in c.bucket.ids : TRUE

\* The call c is claim_user with a bucket of the one TemporaryBadge t.
ClaimOf(c, t) ==
    c.op = "claim_user" /\ c.bucket = [addr |-> temporary_badge_address, ids |-> {t}]

(***************************************************************************)
(* C1: exactly-once hand-off.  For every TemporaryBadge t at most one      *)
(* claim_user(t) ever succeeds, and once one has, t is destroyed and has   *)
(* no entry in approved_users, in every later state.                       *)
(***************************************************************************)
C1_ExactlyOnceHandOff ==
    \A t \in TempIds :
        /\ claim_count[t] <= 1
        /\ claim_count[t] = 1 =>
              /\ t \notin DOMAIN temporary_badges
              /\ t \notin DOMAIN approved_users

\* A badge was claimed, and a later claim_user call was made and rejected.
C1_Witness ==
    /\ \E t \in TempIds : claim_count[t] = 1
    /\ last.op = "claim_user" /\ last.result = "NotApprovedError"

(***************************************************************************)
(* C2: whenever claim_user(t) succeeds, the UserBadge returned carries the *)
(* username of the request_user call that minted t.                        *)
(***************************************************************************)
C2_ClaimedUsername ==
    (last.op = "claim_user" /\ last.result = "ok") =>
        /\ last.ret \in DOMAIN user_badges
        /\ user_badges[last.ret] = requested_as[BucketId(last)]

\* A successful claim after both usernames were requested and one of them twice.
C2_Witness ==
    /\ last.op = "claim_user" /\ last.result = "ok"
    /\ \E t1, t2, t3 \in DOMAIN requested_as :
          /\ t1 # t2 /\ requested_as[t1] = requested_as[t2]
          /\ requested_as[t3] # requested_as[t1]

(***************************************************************************)
(* C3: approve_user called without the admin badge fails with              *)
(* UnauthorizedError and changes nothing: pending_users, approved_users,   *)
(* the vault and the UserBadge resource are as before the call.            *)
(***************************************************************************)
C3_UnauthorizedApprove ==
    [][(last'.op = "approve_user" /\ ~last'.auth) =>
          (last'.result = "UnauthorizedError" /\ Unchanged)]_vars

\* Rejected although the username was pending.
C3_Witness ==
    /\ last.op = "approve_user" /\ ~last.auth
    /\ last.username \in DOMAIN pending_users

(***************************************************************************)
(* C4: after request_user(u) immediately followed by an authorized         *)
(* approve_user(u), approved_users has the entry keyed by the id of the    *)
(* TemporaryBadge that request returned, mapping to the UserBadge just     *)
(* minted (and no other key maps to it), and pending_users has no u.       *)
(***************************************************************************)
C4_RequestThenApprove ==
    (/\ last.op = "approve_user" /\ last.auth
     /\ prev_request # NoRequest
     /\ prev_request.username = last.username) =>
        /\ last.result = "ok"
        /\ prev_request.id \in DOMAIN approved_users
        /\ approved_users[prev_request.id] = last.ret
        /\ {t \in DOMAIN approved_users : approved_users[t] = last.ret} = {prev_request.id}
        /\ last.ret \in approved_users_vault
        /\ last.username \notin DOMAIN pending_users

\* The case, with another approval already in the ledger.
C4_Witness ==
    /\ last.op = "approve_user" /\ last.auth
    /\ prev_request # NoRequest
    /\ prev_request.username = last.username
    /\ Cardinality(DOMAIN approved_users) = 2

(***************************************************************************)
(* C5: an authorized approve_user(u) fails with NotFoundError whenever u   *)
(* has no entry in pending_users (never requested, or consumed by an       *)
(* earlier approve_user), and then changes nothing.                        *)
(***************************************************************************)
C5_ApproveNotFound ==
    [][(/\ last'.op = "approve_user" /\ last'.auth
        /\ last'.username \notin DOMAIN pending_users) =>
          (last'.result = "NotFoundError" /\ Unchanged)]_vars

\* Rejected for a username whose entry an earlier approve_user consumed.
C5_Witness ==
    /\ last.op = "approve_user" /\ last.auth
    /\ last.result = "NotFoundError"
    /\ \E p \in DOMAIN user_badges : user_badges[p] = last.username

(***************************************************************************)
(* C6: claim_user with one TemporaryBadge whose id has no entry in         *)
(* approved_users fails with NotApprovedError and changes nothing; the     *)
(* badge presented is not burnt.                                           *)
(***************************************************************************)
C6_ClaimNotApproved ==
    [][(\E t \in TempIds : ClaimOf(last', t) /\ t \notin DOMAIN approved_users) =>
          (last'.result = "NotApprovedError" /\ Unchanged)]_vars

\* request_user immediately followed by claim_user of the badge it returned.
C6_Witness ==
    /\ last.op = "claim_user"
    /\ prev_request # NoRequest
    /\ ClaimOf(last, prev_request.id)
    /\ prev_request.id \in DOMAIN temporary_badges

(***************************************************************************)
(* C7: claim_user with a bucket of any other resource fails with           *)
(* WrongCredentialTypeError and changes nothing, also when the id of the   *)
(* NFT presented is a key of approved_users.                               *)
(***************************************************************************)
C7_ClaimWrongType ==
    [][(last'.op = "claim_user" /\ last'.bucket.addr # temporary_badge_address) =>
          (last'.result = "WrongCredentialTypeError" /\ Unchanged)]_vars

\* A foreign NFT whose id is a key of approved_users was presented.
C7_Witness ==
    /\ last.op = "claim_user"
    /\ last.bucket.addr = foreign_address
    /\ last.bucket.ids \subseteq DOMAIN approved_users

(***************************************************************************)
(* C8: request_user(u) never fails, whoever calls it and whatever the      *)
(* history of u: it mints one TemporaryBadge with an id never used before  *)
(* and data u, sets pending_users[u] to that id (replacing an earlier      *)
(* entry) and returns that badge.                                          *)
(***************************************************************************)
C8_RequestAlwaysSucceeds ==
    [][last'.op = "request_user" =>
          /\ last'.result = "ok"
          /\ last'.ret \notin DOMAIN temporary_badges
          /\ last'.ret \notin burnt_temporary_badges
          /\ DOMAIN temporary_badges' = DOMAIN temporary_badges \cup {last'.ret}
          /\ temporary_badges'[last'.ret] = last'.username
          /\ \A t \in DOMAIN temporary_badges : temporary_badges'[t] = temporary_badges[t]
          /\ DOMAIN pending_users' = DOMAIN pending_users \cup {last'.username}
          /\ pending_users'[last'.username] = last'.ret
          /\ \A u \in DOMAIN pending_users \ {last'.username} :
                pending_users'[u] = pending_users[u]
          /\ UNCHANGED <<approved_users, approved_users_vault, user_badges>>]_vars

\* The empty username requested again, without the admin badge, after it was
\* claimed and while it is pending once more.
C8_Witness ==
    /\ last.op = "request_user" /\ last.username = "" /\ ~last.auth
    /\ \E p \in held_user_badges : user_badges[p] = ""
    /\ \E t \in DOMAIN temporary_badges : t # last.ret /\ temporary_badges[t] = ""

(***************************************************************************)
(* C9: on a fresh component request_user(u), authorized approve_user(u),   *)
(* claim_user(the badge returned) succeed one after the other, the claim   *)
(* returns a UserBadge with username u, and afterwards approved_users,     *)
(* pending_users and the vault are empty.                                  *)
(***************************************************************************)
C9_Scenario ==
    /\ scenario.stage \in {1, 2, 3} => last.result = "ok"
    /\ scenario.stage = 3 =>
          /\ last.ret \in DOMAIN user_badges
          /\ user_badges[last.ret] = scenario.username
          /\ DOMAIN approved_users = {}
          /\ DOMAIN pending_users = {}
          /\ approved_users_vault = {}

C9_Witness == scenario.stage = 3 /\ scenario.username = "alice"

(***************************************************************************)
(* C10, as stated: a UserBadge whose username is requested again after its *)
(* approval stays in the vault for ever (it never reaches a claimant).     *)
(***************************************************************************)
C10_OrphanedForEver == \A p \in re_requested : p \in approved_users_vault

(***************************************************************************)
(* C10, amended: a UserBadge whose username is requested again after its   *)
(* approval is not orphaned.  While it is in the vault, approved_users     *)
(* still maps a TemporaryBadge in existence to it, so that the holder of   *)
(* that badge can claim it; otherwise it is held by the claimant.          *)
(***************************************************************************)
C10_StillClaimable ==
    \A p \in re_requested :
        IF p \in approved_users_vault
        THEN \E t \in DOMAIN temporary_badges :
                t \in DOMAIN approved_users /\ approved_users[t] = p
        ELSE p \in held_user_badges /\ p \notin Values(approved_users)

\* The badge was claimed after its username had been requested again.
C10_Witness ==
    /\ last.op = "claim_user" /\ last.result = "ok"
    /\ last.ret \in re_requested

\* The username u has reached the claimed state: a UserBadge carrying it was
\* returned by a successful claim_user.
Claimed(u) == \E p \in delivered : user_badges[p] = u

(***************************************************************************)
(* C11: a TemporaryBadge whose pending_users entry was replaced by a later *)
(* request_user of the same username is orphaned: it is never recorded in  *)
(* approved_users and no claim_user with it ever succeeds.                 *)
(***************************************************************************)
C11_OverwrittenOrphaned ==
    \A t \in overwritten :
        /\ t \notin DOMAIN approved_users
        /\ t \notin DOMAIN approved_log
        /\ claim_count[t] = 0
        /\ t \notin Values(pending_users)

\* claim_user with the earlier badge is rejected although its username has
\* been approved since.
C11_Witness ==
    \E t \in overwritten :
        /\ ClaimOf(last, t) /\ last.result = "NotApprovedError"
        /\ \E p \in DOMAIN user_badges : user_badges[p] = requested_as[t]

(***************************************************************************)
(* C12, as stated: once a username is claimed, no call gives it a new      *)
(* pending_users entry.                                                    *)
(***************************************************************************)
C12_NeverPendingAgain ==
    [][\A u \in Usernames :
          (Claimed(u) /\ u \in DOMAIN pending_users') =>
              (u \in DOMAIN pending_users /\ pending_users'[u] = pending_users[u])]_vars

(***************************************************************************)
(* C12, amended: once a username is claimed, approve_user, claim_user and  *)
(* create_auction give it no new pending_users entry; request_user(u)      *)
(* does, making u pending again with the TemporaryBadge it mints.          *)
(***************************************************************************)
C12_PendingAgainOnlyByRequest ==
    [][\A u \in Usernames :
          Claimed(u) =>
              IF last'.op = "request_user" /\ last'.username = u
              THEN /\ u \in DOMAIN pending_users'
                   /\ pending_users'[u] = last'.ret
                   /\ last'.ret \notin DOMAIN requested_as
              ELSE u \in DOMAIN pending_users' =>
                      (u \in DOMAIN pending_users /\ pending_users'[u] = pending_users[u])]_vars

\* A claimed username was requested again and is pending with the new badge,
\* while an orphaned TemporaryBadge is still in existence.
C12_Witness ==
    /\ last.op = "request_user"
    /\ Claimed(last.username)
    /\ last.ret \notin overwritten
    /\ overwritten \cap DOMAIN temporary_badges # {}
    /\ pending_users[last.username] = last.ret

(***************************************************************************)
(* C13: create_auction fails with InvalidAttestationError for every proof  *)
(* that is not of a UserBadge (a TemporaryBadge, the admin badge, a        *)
(* foreign resource), succeeds for a proof of a UserBadge, and either way  *)
(* changes nothing.                                                        *)
(***************************************************************************)
C13_CheckAccess ==
    [][last'.op = "create_auction" =>
          /\ last'.result = IF last'.bucket.addr = user_badge_address
                            THEN "ok" ELSE "InvalidAttestationError"
          /\ Unchanged
          /\ UNCHANGED delivered]_vars

\* A proof of a TemporaryBadge was rejected while its presenter's username is
\* approved and a UserBadge is in circulation.
C13_Witness ==
    /\ last.op = "create_auction"
    /\ last.bucket.addr = temporary_badge_address
    /\ last.result = "InvalidAttestationError"
    /\ last.bucket.ids \subseteq DOMAIN approved_users
    /\ delivered # {}

(***************************************************************************)
(* C14: every TemporaryBadge t that was claimed successfully was recorded  *)
(* by an approve_user call made with the admin badge, for the username t   *)
(* carries, at a time when t was the badge of the most recent request_user *)
(* of that username; and t was minted by a request_user of that username.  *)
(***************************************************************************)
C14_ClaimAfterApproveAfterRequest ==
    \A t \in TempIds :
        claim_count[t] >= 1 =>
            /\ t \in DOMAIN requested_as
            /\ t \in DOMAIN approved_log
            /\ approved_log[t].auth
            /\ approved_log[t].username = requested_as[t]
            /\ approved_log[t].latest = t

\* A badge was claimed whose username was requested more than once.
C14_Witness ==
    /\ last.op = "claim_user" /\ last.result = "ok"
    /\ claim_count[BucketId(last)] = 1
    /\ Cardinality({t \in DOMAIN requested_as :
                        requested_as[t] = requested_as[BucketId(last)]}) >= 2

(***************************************************************************)
(* C15: approved_users is one-to-one and its values are exactly the        *)
(* UserBadge ids in the vault; no UserBadge is both in the vault and       *)
(* delivered to a claimant.                                                *)
(***************************************************************************)
C15_PoolLedgerConsistent ==
    /\ \A t1, t2 \in DOMAIN approved_users :
          approved_users[t1] = approved_users[t2] => t1 = t2
    /\ Values(approved_users) = approved_users_vault
    /\ approved_users_vault \cap delivered = {}
    /\ approved_users_vault \subseteq DOMAIN user_badges

\* One UserBadge delivered, another one waiting in the vault.
C15_Witness ==
    /\ delivered # {}
    /\ approved_users_vault # {}

(***************************************************************************)
(* C16: an approval is not lost.  Every TemporaryBadge in existence with   *)
(* an entry in approved_users has its UserBadge in the vault, and every    *)
(* claim_user with it succeeds and returns that UserBadge.                 *)
(***************************************************************************)
C16_ApprovalNotLost ==
    [][\A t \in DOMAIN temporary_badges \cap DOMAIN approved_users :
          /\ approved_users[t] \in approved_users_vault
          /\ ClaimOf(last', t) =>
                (last'.result = "ok" /\ last'.ret = approved_users[t])]_vars

\* The claim succeeded although the username was requested again after the
\* approval and is pending with another badge.
C16_Witness ==
    /\ last.op = "claim_user" /\ last.result = "ok"
    /\ last.ret \in re_requested
    /\ requested_as[BucketId(last)] \in DOMAIN pending_users

(***************************************************************************)
(* C17: a successful claim_user(t) removes the approved_users entry of t   *)
(* and no other, takes the UserBadge recorded for t out of the vault and   *)
(* no other, burns t and no other TemporaryBadge, and leaves pending_users *)
(* and the UserBadge data as they were.                                    *)
(***************************************************************************)
C17_ClaimFrame ==
    [][\A t \in TempIds :
          (ClaimOf(last', t) /\ last'.result = "ok") =>
              /\ t \in DOMAIN approved_users
              /\ last'.ret = approved_users[t]
              /\ DOMAIN approved_users' = (DOMAIN approved_users) \ {t}
              /\ \A x \in DOMAIN approved_users' : approved_users'[x] = approved_users[x]
              /\ approved_users[t] \in approved_users_vault
              /\ approved_users_vault' = approved_users_vault \ {approved_users[t]}
              /\ t \in DOMAIN temporary_badges
              /\ DOMAIN temporary_badges' = (DOMAIN temporary_badges) \ {t}
              /\ \A x \in DOMAIN temporary_badges' : temporary_badges'[x] = temporary_badges[x]
              /\ UNCHANGED <<pending_users, user_badges>>]_vars

\* A claim succeeded while another approval, another TemporaryBadge and a
\* pending request were there to be left alone.
C17_Witness ==
    /\ last.op = "claim_user" /\ last.result = "ok"
    /\ DOMAIN approved_users # {}
    /\ DOMAIN pending_users # {}

(***************************************************************************)
(* C18: no TemporaryBadge id is both a value of pending_users and a key of *)
(* approved_users; distinct usernames of pending_users map to distinct     *)
(* ids; every id in either map is of a TemporaryBadge that request_user    *)
(* minted and that has not been burnt.                                     *)
(***************************************************************************)
C18_RegistriesDisjoint ==
    /\ Values(pending_users) \cap DOMAIN approved_users = {}
    /\ \A u1, u2 \in DOMAIN pending_users :
          pending_users[u1] = pending_users[u2] => u1 = u2
    /\ Values(pending_users) \cup DOMAIN approved_users \subseteq DOMAIN temporary_badges
    /\ Values(pending_users) \cup DOMAIN approved_users \subseteq DOMAIN requested_as
    /\ \A t \in Values(pending_users) \cup DOMAIN approved_users : claim_count[t] = 0

\* Both usernames pending and an approval in the ledger.
C18_Witness ==
    /\ Cardinality(DOMAIN pending_users) = 2
    /\ DOMAIN approved_users # {}
====
